---- MODULE Spec2Model ----
(***************************************************************************)
(* pyback.py: rsync-over-ssh snapshot backups.  main() loads a JSON        *)
(* settings file, builds the list of backup sets, and for every backup     *)
(* target and every backup set runs the pipeline                           *)
(*   mkdir -p base; rm -fR base/.tmp; find|sort|head; rsync; mv; find; rm  *)
(* recording outcomes in a BackupNotifier, whose report is mailed at the   *)
(* end.  Strings are sequences of one-character strings, so that           *)
(* re.escape, the remote shell's unquoting, strftime and sort are modelled *)
(* by what they do to the characters.                                      *)
(***************************************************************************)
EXTENDS Integers, Sequences, FiniteSets, TLC

\* ------------------------------------------------------------------ bounds

\* Largest number of external commands that exit non-zero in one run.
MaxFailures == 1
\* Largest number of seconds the wall clock advances during one run.
MaxTicks == 1
\* Largest number written in the retention values given to the resolver.
MaxRetentionTime == 3
\* Most add_success, add_error and add_warning calls made on a notifier alone.
MaxCalls == 3

\* ----------------------------------------------------------------- strings

None == "None"

\* F applied to the values of its arguments: each argument is evaluated
\* once, before F.
Strict1(F(_), x) == CHOOSE r \in {F(v) : v \in {x}} : TRUE
Strict2(F(_, _), x, y) == CHOOSE r \in {F(v, w) : v \in {x}, w \in {y}} : TRUE
Strict3(F(_, _, _), x, y, z) ==
  CHOOSE r \in {F(u, v, w) : u \in {x}, v \in {y}, w \in {z}} : TRUE

Digits == <<"0", "1", "2", "3", "4", "5", "6", "7", "8", "9">>

\* Characters in ascending byte order (the order sort uses in the C locale).
CharOrder ==
  <<"\n", " ", "+", "-", ".", "/",
    "0", "1", "2", "3", "4", "5", "6", "7", "8", "9",
    "D", "H", "M", "W", "X", "Y", "\\", "_",
    "a", "b", "d", "h", "m", "p", "t", "w", "x", "y">>

Ord(c) == CHOOSE k \in 1..Len(CharOrder) : CharOrder[k] = c

IsDigit(c) == \E k \in 1..10 : Digits[k] = c

DigitVal(c) == (CHOOSE k \in 1..10 : Digits[k] = c) - 1

\* str.lower() on the letters used as retention units.
Lower(c) ==
  CASE c = "Y" -> "y" [] c = "W" -> "w" [] c = "D" -> "d"
    [] c = "H" -> "h" [] c = "M" -> "m" [] c = "X" -> "x" [] OTHER -> c

\* Byte-wise lexicographic order on strings.
RECURSIVE StrLess(_, _)
StrLess(a0, b0) ==
  Strict2(LAMBDA a, b :
            IF b = <<>> THEN FALSE
            ELSE IF a = <<>> THEN TRUE
            ELSE IF a[1] # b[1] THEN Ord(a[1]) < Ord(b[1])
            ELSE StrLess(Tail(a), Tail(b)),
          a0, b0)

\* The characters re.escape puts a backslash before (Python >= 3.7).
SpecialChars == {"\n", " ", "+", "-", ".", "\\"}

RECURSIVE ReEscape(_)
ReEscape(s0) ==
  Strict1(LAMBDA s :
            IF s = <<>> THEN <<>>
            ELSE IF s[1] \in SpecialChars THEN <<"\\", s[1]>> \o ReEscape(Tail(s))
            ELSE <<s[1]>> \o ReEscape(Tail(s)),
          s0)

\* What the remote shell makes of one unquoted word: a backslash quotes the
\* next character, and backslash-newline is a line continuation (both go).
RECURSIVE ShellUnquote(_)
ShellUnquote(s0) ==
  Strict1(LAMBDA s :
            IF s = <<>> THEN <<>>
            ELSE IF s[1] = "\\"
              THEN IF Len(s) = 1 THEN <<>>
                   ELSE IF s[2] = "\n" THEN ShellUnquote(Tail(Tail(s)))
                   ELSE <<s[2]>> \o ShellUnquote(Tail(Tail(s)))
            ELSE <<s[1]>> \o ShellUnquote(Tail(s)),
          s0)

\* os.path.basename: what follows the last slash.
RECURSIVE Basename(_)
Basename(p0) ==
  Strict1(LAMBDA p :
            IF \E k \in 1..Len(p) : p[k] = "/"
              THEN Basename(Tail(p))
              ELSE p,
          p0)

\* os.path.dirname for a path with at least one slash below the root.
RECURSIVE Dirname(_)
Dirname(p0) ==
  Strict1(LAMBDA p :
            IF p = <<>> THEN <<>>
            ELSE IF p[Len(p)] = "/" THEN SubSeq(p, 1, Len(p) - 1)
            ELSE Dirname(SubSeq(p, 1, Len(p) - 1)),
          p0)

\* os.path.normpath on the paths that occur here: repeated slashes collapse
\* and a trailing slash goes.
RECURSIVE NormPath(_)
NormPath(p0) ==
  Strict1(LAMBDA p :
            IF Len(p) < 2 THEN p
            ELSE IF p[1] = "/" /\ p[2] = "/" THEN NormPath(Tail(p))
            ELSE IF Len(p) = 2 /\ p[2] = "/" THEN <<p[1]>>
            ELSE <<p[1]>> \o NormPath(Tail(p)),
          p0)

\* int(): an optional sign and then at least one decimal digit; anything
\* else raises ValueError.
RECURSIVE DigitsValue(_, _)
DigitsValue(s0, acc0) ==
  Strict2(LAMBDA s, acc :
            IF s = <<>> THEN acc ELSE DigitsValue(Tail(s), 10 * acc + DigitVal(s[1])),
          s0, acc0)

AllDigits(s) == s # <<>> /\ \A k \in 1..Len(s) : IsDigit(s[k])

IntOk(s) ==
  \/ AllDigits(s)
  \/ s # <<>> /\ s[1] \in {"+", "-"} /\ AllDigits(Tail(s))

IntValue(s) ==
  IF s[1] = "-" THEN 0 - DigitsValue(Tail(s), 0)
  ELSE IF s[1] = "+" THEN DigitsValue(Tail(s), 0)
  ELSE DigitsValue(s, 0)

\* str(n) for n >= 0.
RECURSIVE NatStr(_)
NatStr(n0) ==
  Strict1(LAMBDA n :
            IF n < 10 THEN <<Digits[n + 1]>>
            ELSE NatStr(n \div 10) \o <<Digits[(n % 10) + 1]>>,
          n0)

Pad2(n) == <<Digits[(n \div 10) + 1], Digits[(n % 10) + 1]>>

\* ------------------------------------------------------------------- clock

\* The clock counts seconds of local time from 2024-01-01 00:00:00.
IsLeap(y) == (y % 4 = 0 /\ y % 100 # 0) \/ y % 400 = 0

DaysInYear(y) == IF IsLeap(y) THEN 366 ELSE 365

DaysInMonth(y, m) ==
  IF m = 2 THEN (IF IsLeap(y) THEN 29 ELSE 28)
  ELSE IF m \in {4, 6, 9, 11} THEN 30 ELSE 31

RECURSIVE YearOf(_, _)
YearOf(days0, y0) ==
  Strict2(LAMBDA days, y :
            IF days < DaysInYear(y) THEN <<y, days>>
            ELSE YearOf(days - DaysInYear(y), y + 1),
          days0, y0)

RECURSIVE MonthOf(_, _, _)
MonthOf(days0, y0, m0) ==
  Strict3(LAMBDA days, y, m :
            IF days < DaysInMonth(y, m) THEN <<m, days + 1>>
            ELSE MonthOf(days - DaysInMonth(y, m), y, m + 1),
          days0, y0, m0)

\* time.strftime("%Y-%m-%d_%H%M%S") at clock value t.
StrfTime(t) ==
  LET yd  == YearOf(t \div 86400, 2024)
      md  == MonthOf(yd[2], yd[1], 1)
      sod == t % 86400
  IN  NatStr(yd[1]) \o <<"-">> \o Pad2(md[1]) \o <<"-">> \o Pad2(md[2]) \o <<"_">>
        \o Pad2(sod \div 3600) \o Pad2((sod % 3600) \div 60) \o Pad2(sod % 60)

\* The instant the run starts: 2024-03-01 03:00:00.
Now0 == 60 * 86400 + 3 * 3600

\* ---------------------------------------------------------------- settings

\* Remote base directories and local directories named by the settings file.
R1 == <<"/", "b", "1">>
R2 == <<"/", "b", "2">>
RemoteDirs == {R1, R2}
L1 == <<"/", "l", "1">>
L2 == <<"/", "l", "2">>

\* The fixed name of the staging directory.
TmpName == <<".", "t", "m", "p">>

\* Values of the optional "retention" key.
Ret20160m == <<"2", "0", "1", "6", "0", "m">>
Ret0m == <<"0", "m">>
Ret3x == <<"3", "x">>
RetBad == <<"x", "x">>
\* The key is absent, or present with a string value.
NoRetention == [present |-> FALSE, value |-> <<>>]
Retention(str) == [present |-> TRUE, value |-> str]
RetentionSpecs ==
  {NoRetention} \cup {Retention(x) : x \in {Ret20160m, Ret0m, Ret3x, RetBad}}

\* One entry of "backupsets"; isdir is what os.path.isdir(localdir) returns,
\* lacking the required keys the entry does not have (the value given for
\* such a key is never read).
SetEntryLacking(l, r, isdir, ret, lacking) ==
  [localdir |-> l, remotedir |-> r, isdir |-> isdir, retention |-> ret,
   lacking |-> lacking]

SetEntry(l, r, isdir, ret) == SetEntryLacking(l, r, isdir, ret, {})

FirstSets ==
  {SetEntry(L1, R1, d, ret) : d \in BOOLEAN, ret \in RetentionSpecs}

SecondSets ==
  {SetEntry(L2, r, d, ret) : r \in RemoteDirs, d \in BOOLEAN, ret \in {NoRetention, Retention(Ret3x)}}

\* Entries without a "localdir" or without a "remotedir" key.
LackingFirst ==
  {SetEntryLacking(L1, R1, TRUE, NoRetention, {"localdir"})}
    \cup {SetEntryLacking(L1, R1, d, NoRetention, {"remotedir"}) : d \in BOOLEAN}

LackingSecond ==
  {SetEntryLacking(L2, R1, TRUE, NoRetention, {"localdir"})}
    \cup {SetEntryLacking(L2, R1, d, NoRetention, {"remotedir"}) : d \in BOOLEAN}

\* The "backupsets" lists: none, one or two entries.
SetLists ==
  {<<>>} \cup {<<a>> : a \in FirstSets \cup LackingFirst}
    \cup {<<a, b>> : a \in FirstSets, b \in SecondSets \cup LackingSecond}

\* How loading the settings file goes: it loads, the file is missing, it is
\* not JSON, or a required key is missing.
Loadable == {"ok", "nofile", "badjson", "nofield"}

Settings ==
  {[loadable |-> "ok", backupsets |-> l] : l \in SetLists}
    \cup {[loadable |-> e, backupsets |-> <<>>] : e \in Loadable \ {"ok"}}

\* The addresses of the "backuptargets" list.
BackupTargets == <<"host1", "host2">>
NumTargets == Len(BackupTargets)
Targets == 1..NumTargets

\* ------------------------------------------------------ remote file system

\* A directory directly under a base directory.  content says whether a
\* transfer into it ran to the end; inner says that a staging directory was
\* moved inside it.
Entry(name, ctime, content, inner) ==
  [name |-> name, ctime |-> ctime, content |-> content, inner |-> inner]

\* find -cmin counts in minutes; the clock counts seconds.
Minute == 60
Day == 24 * 60 * Minute

\* What earlier runs left under every base directory.
Histories ==
  { [exists |-> FALSE, entries |-> {}],
    [exists |-> TRUE,
     entries |-> {Entry(TmpName, Now0 - Day, "partial", FALSE)}],
    [exists |-> TRUE,
     entries |-> {Entry(StrfTime(Now0 - 10 * Day), Now0 - 10 * Day, "full", FALSE),
                  Entry(StrfTime(Now0 - 20 * Day), Now0 - 20 * Day, "full", FALSE)}],
    [exists |-> TRUE,
     entries |-> {Entry(StrfTime(Now0 - 20160 * Minute), Now0 - 20160 * Minute, "full", FALSE),
                  Entry(TmpName, Now0 - Day, "partial", FALSE)}] }

Names(dir) == {e.name : e \in dir.entries}

EntryOf(dir, name) == CHOOSE e \in dir.entries : e.name = name

Snapshots(dir) == {e \in dir.entries : e.name # TmpName}

Join(base, name) == base \o <<"/">> \o name

\* The part of a remote command's word that the model's file system knows:
\* the base directory and the name under it.
BaseOf(path) == Dirname(path)
NameOf(path) == Basename(path)

\* mkdir -p word, run by the remote shell.
MkdirP(fs, word) ==
  LET path == ShellUnquote(word)
  IN  IF path \in DOMAIN fs THEN [fs EXCEPT ![path].exists = TRUE] ELSE fs

\* rm -fR words..., run by the remote shell: the directories it names.
RmTargets(words) == {ShellUnquote(w) : w \in words}

\* The file system once the directories at the paths in gone are removed.
RmFR(fs, gone) ==
  [b \in DOMAIN fs |->
    [fs[b] EXCEPT !.entries = {e \in @ : Join(b, e.name) \notin gone}]]

\* find base -mindepth 1 -maxdepth 1 -type d: one line per directory.
FindDirs(fs, word) ==
  LET base == ShellUnquote(word)
  IN  IF base \in DOMAIN fs /\ fs[base].exists
        THEN {Join(base, e.name) : e \in fs[base].entries}
        ELSE {}

\* str(n) for any integer n.
IntStr(n) == IF n < 0 THEN <<"-">> \o NatStr(0 - n) ELSE NatStr(n)

\* The argument of -cmin as pyback builds it: '+' and str(retentionMins).
CminArg(mins) == <<"+">> \o IntStr(mins)

\* find rejects a -cmin argument that is not a sign and decimal digits.
CminArgOk(arg) == Len(arg) > 1 /\ arg[1] = "+" /\ AllDigits(Tail(arg))

\* Mutant of FindCmin: n minutes ago or more.
FindCminAtLeast(fs, word, arg, t) ==
  LET base == ShellUnquote(word)
      n    == DigitsValue(Tail(arg), 0)
  IN  IF base \in DOMAIN fs /\ fs[base].exists /\ CminArgOk(arg)
        THEN {Join(base, e.name) : e \in {x \in fs[base].entries : t - x.ctime >= n * Minute}}
        ELSE {}

\* ... -cmin +n: those whose status changed more than n minutes ago.
FindCmin(fs, word, arg, t) ==
  LET base == ShellUnquote(word)
      n    == DigitsValue(Tail(arg), 0)
  IN  IF base \in DOMAIN fs /\ fs[base].exists /\ CminArgOk(arg)
        THEN {Join(base, e.name) : e \in {x \in fs[base].entries : t - x.ctime > n * Minute}}
        ELSE {}

\* sort -n compares the leading number of each line (0 when there is none)
\* and falls back to comparing the bytes of the whole line.
RECURSIVE LeadingNum(_, _)
LeadingNum(s0, acc0) ==
  Strict2(LAMBDA s, acc :
            IF s = <<>> \/ ~IsDigit(s[1]) THEN acc
            ELSE LeadingNum(Tail(s), 10 * acc + DigitVal(s[1])),
          s0, acc0)

SortNLess(a, b) ==
  \/ LeadingNum(a, 0) < LeadingNum(b, 0)
  \/ LeadingNum(a, 0) = LeadingNum(b, 0) /\ StrLess(a, b)

\* sort -n -r | head -1, decoded: the last line in sort -n order with its
\* newline, or the empty string when there is no line.
SortNRHead1(lines) ==
  IF lines = {} THEN <<>>
  ELSE (CHOOSE m \in lines : \A l \in lines \ {m} : SortNLess(l, m)) \o <<"\n">>

\* rsync ... src user@address:word: the remote shell unquotes the word; the
\* staging directory is created or refreshed there.
RsyncInto(fs, word, content, t) ==
  LET path == ShellUnquote(word)
      b    == BaseOf(path)
      n    == NameOf(path)
  IN  IF b \in DOMAIN fs /\ fs[b].exists
        THEN [fs EXCEPT ![b].entries =
               {e \in @ : e.name # n} \cup {Entry(n, t, content, FALSE)}]
        ELSE fs

\* mv src dst on the remote host.  It exits non-zero when src is missing, or
\* when dst is a directory that already holds a non-empty directory of src's
\* name.
MvFails(fs, srcWord, dstWord) ==
  LET src == ShellUnquote(srcWord)
      dst == ShellUnquote(dstWord)
      b   == BaseOf(src)
  IN  \/ b \notin DOMAIN fs
      \/ NameOf(src) \notin Names(fs[b])
      \/ BaseOf(dst) # b
      \/ NameOf(dst) \in Names(fs[b]) /\ EntryOf(fs[b], NameOf(dst)).inner

\* A dst that does not exist is a rename; a dst that is a directory receives
\* src inside it.
Mv(fs, srcWord, dstWord, t) ==
  LET src == ShellUnquote(srcWord)
      dst == ShellUnquote(dstWord)
      b   == BaseOf(src)
      old == EntryOf(fs[b], NameOf(src))
  IN  IF NameOf(dst) \in Names(fs[b])
        THEN [fs EXCEPT ![b].entries =
               {e \in @ : e.name \notin {NameOf(src), NameOf(dst)}}
                 \cup {[EntryOf(fs[b], NameOf(dst)) EXCEPT !.inner = TRUE, !.ctime = t]}]
        ELSE [fs EXCEPT ![b].entries =
               {e \in @ : e.name # NameOf(src)}
                 \cup {[old EXCEPT !.name = NameOf(dst), !.ctime = t]}]

\* --------------------------------------------------------- BackupNotifier

\* The e argument of add_error and add_warning: None, a CalledProcessError
\* (cmd, returncode and the captured streams), or whatever else is passed.
CalledProcessError(cmd, args, returncode) ==
  [type |-> "CalledProcessError", cmd |-> cmd, args |-> args, returncode |-> returncode]
StrArg == [type |-> "str"]
NoArg == [type |-> None]

\* `if e:` is true of an exception object and of a non-empty string.
Truthy(e) == e.type # None

\* e.cmd, e.returncode, e.stdout, ... exist on a CalledProcessError only.
HasCmd(e) == e.type = "CalledProcessError"

\* The three message lists; calls is history: the add_* calls that have
\* returned, in the order they were made.
NewNotifier ==
  [success |-> <<>>, error |-> <<>>, warning |-> <<>>, calls |-> <<>>]

Call(kind, m) == [kind |-> kind, m |-> m]

Message(title, ti, si, e) == [title |-> title, ti |-> ti, si |-> si, e |-> e]

\* add_success never raises.
AddSuccess(n, m) ==
  [n EXCEPT !.success = Append(@, m), !.calls = Append(@, Call("success", m))]

\* add_error and add_warning raise AttributeError when e is truthy and has
\* no cmd; nothing is appended then.
AddErrorRaises(m) == Truthy(m.e) /\ ~HasCmd(m.e)
AddError(n, m) ==
  [n EXCEPT !.error = Append(@, m), !.calls = Append(@, Call("error", m))]

AddWarningRaises(m) == Truthy(m.e) /\ ~HasCmd(m.e)
AddWarning(n, m) ==
  [n EXCEPT !.warning = Append(@, m), !.calls = Append(@, Call("warning", m))]

\* Lines 85-94: one body section, each message under the section's label.
Section(label, messages) ==
  [i \in 1..Len(messages) |-> [label |-> label, text |-> messages[i]]]

\* Mutant of BuildReport: the body lists the successes first.
BuildReportSuccessesFirst(n) ==
  [errors |-> Len(n.error), successes |-> Len(n.success), warnings |-> Len(n.warning),
   body |-> Section("OK", n.success) \o Section("ERROR", n.error)
              \o Section("WARNING", n.warning)]

\* send_notification: the subject carries the three counts; the body lists
\* the errors, then the warnings, then the successes.
BuildReport(n) ==
  [errors |-> Len(n.error), successes |-> Len(n.success), warnings |-> Len(n.warning),
   body |-> Section("ERROR", n.error) \o Section("WARNING", n.warning)
              \o Section("OK", n.success)]

\* ------------------------------------------------------ retention resolver

WeekFactor == 52 * 7 * 24 * 60
DefaultRetention == 12 * WeekFactor

\* Lines 138-153: the cutoff in minutes of one "retention" value.  raised:
\* int() raised ValueError; warn: the unit is none of y, w, d, h, m.
ResolveRetention(ret) ==
  IF ~ret.present THEN [raised |-> FALSE, warn |-> FALSE, minutes |-> DefaultRetention]
  ELSE
    LET spec  == ret.value
        front == SubSeq(spec, 1, Len(spec) - 1)
        unit  == IF spec = <<>> THEN <<>> ELSE <<Lower(spec[Len(spec)])>>
    IN  IF ~IntOk(front)
          THEN [raised |-> TRUE, warn |-> FALSE, minutes |-> DefaultRetention]
          ELSE
            LET n == IntValue(front)
            IN  CASE unit = <<"y">> -> [raised |-> FALSE, warn |-> FALSE, minutes |-> n * 365 * 24 * 60]
                  [] unit = <<"w">> -> [raised |-> FALSE, warn |-> FALSE, minutes |-> n * WeekFactor]
                  [] unit = <<"d">> -> [raised |-> FALSE, warn |-> FALSE, minutes |-> n * 24 * 60]
                  [] unit = <<"h">> -> [raised |-> FALSE, warn |-> FALSE, minutes |-> n * 60]
                  [] unit = <<"m">> -> [raised |-> FALSE, warn |-> FALSE, minutes |-> n]
                  [] OTHER -> [raised |-> FALSE, warn |-> TRUE, minutes |-> DefaultRetention]

BackupSet(localdir, remotedir, retention) ==
  [localdir |-> localdir, remotedir |-> remotedir, retention |-> retention]

\* ------------------------------------------------------------------- state

VARIABLES
  settings,         \* the settings file and what os.path.isdir will answer
  pc,               \* where main() is: the command it is about to run
  k,                \* index of the "backupsets" entry being loaded
  backupSets,       \* the list of accepted BackupSet objects
  ti, si,           \* the loop variables: target and backup set
  fs,               \* per target, the directories under each base directory
  now,              \* the wall clock, in seconds
  failures,         \* commands that have exited non-zero so far
  latestBackupDir,  \* main()'s local of that name
  backupcmd,        \* main()'s local of that name: the rsync command
  oldBackupDirs,    \* main()'s local of that name, as a set of lines
  notifier,         \* the BackupNotifier's three message lists
  outbox,           \* the reports handed to _send_email_notification
  runs              \* history: one record per pipeline started

vars ==
  <<settings, pc, k, backupSets, ti, si, fs, now, failures, latestBackupDir,
    backupcmd, oldBackupDirs, notifier, outbox, runs>>

PipelinePcs == {"mkdir", "rmtmp", "find1", "rsync", "mv", "find2", "rm2"}

\* The rsync command: its --link-dest arguments (none or one) and the
\* destination path after user@address:.
NoCmd == [linkDest |-> <<>>, dest |-> <<>>]

\* History record of one pipeline: the steps run, those whose command exited
\* non-zero, the directory promoted, the base directory when the pipeline's
\* first command ran and when the second find ran.
NewRun(t, s) ==
  [ti |-> t, si |-> s, ran |-> {}, failed |-> {}, ended |-> FALSE,
   promoted |-> <<>>, listedAt |-> 0, listedDir |-> {}, startDir |-> {}]

Init ==
  /\ settings \in Settings
  /\ pc = "start"
  /\ k = 1
  /\ backupSets = <<>>
  /\ ti = 1
  /\ si = 1
  /\ \E h \in Histories : fs = [t \in Targets |-> [r \in RemoteDirs |-> h]]
  /\ now = Now0
  /\ failures = 0
  /\ latestBackupDir = <<>>
  /\ backupcmd = NoCmd
  /\ oldBackupDirs = {}
  /\ notifier = NewNotifier
  /\ outbox = <<>>
  /\ runs = <<>>

\* The loop headers at lines 157 and 160: the pair after (t, s), or the end
\* of both loops.
NextPair(t, s, nsets) ==
  IF s < nsets THEN [pc |-> "mkdir", ti |-> t, si |-> s + 1]
  ELSE IF t < NumTargets THEN [pc |-> "mkdir", ti |-> t + 1, si |-> 1]
  ELSE [pc |-> "notify", ti |-> t, si |-> s]

\* Mutant of Continue: `break`, which leaves the loop over the backup sets.
ContinueAsBreak(t, s, nsets) == NextPair(t, nsets, nsets)

\* `continue` in an except handler: on to the next backup set.
Continue(t, s, nsets) == NextPair(t, s, nsets)

\* Entering the loops at line 157 with nsets accepted backup sets.
FirstPair(nsets) ==
  IF nsets > 0 /\ NumTargets > 0 THEN [pc |-> "mkdir", ti |-> 1, si |-> 1]
  ELSE [pc |-> "notify", ti |-> 1, si |-> 1]

\* The history once the current pipeline has run step (its command failing
\* or not) and control moves to nx.
Stepped(step, failedNow, nx) ==
  LET n   == Len(runs)
      r1  == [runs[n] EXCEPT !.ran = @ \cup {step},
                             !.failed = IF failedNow THEN @ \cup {step} ELSE @,
                             !.startDir = IF step = "mkdir"
                                            THEN fs[ti][backupSets[si].remotedir].entries
                                            ELSE @]
      r2  == IF nx.pc \in {"mkdir", "notify"} THEN [r1 EXCEPT !.ended = TRUE] ELSE r1
      rs  == [runs EXCEPT ![n] = r2]
  IN  IF nx.pc = "mkdir" THEN Append(rs, NewRun(nx.ti, nx.si)) ELSE rs

Goto(nx) == pc' = nx.pc /\ ti' = nx.ti /\ si' = nx.si

Stay(p) == [pc |-> p, ti |-> ti, si |-> si]

\* Whether the command about to run exits non-zero: any command may, up to
\* MaxFailures times in a run.
MayFail(ok) == ok \/ failures < MaxFailures
Count(ok) == failures' = IF ok THEN failures ELSE failures + 1

remoteBaseDir == backupSets[si].remotedir
remoteTmpDir == Join(remoteBaseDir, TmpName)
escapedRemoteBaseDir == ReEscape(remoteBaseDir)
escapedRemoteTmpDir == ReEscape(remoteTmpDir)

\* ----------------------------------------------------------------- loading

\* Lines 104-124: open and parse the settings file, build the notifier and
\* the targets.  Any failure here is an uncaught exception.
LoadSettings ==
  /\ pc = "start"
  /\ IF settings.loadable # "ok" THEN pc' = "crashed"
     ELSE IF settings.backupsets = <<>> THEN pc' = FirstPair(0).pc
     ELSE pc' = "sets"
  /\ UNCHANGED <<settings, k, backupSets, ti, si, fs, now, failures, latestBackupDir,
                 backupcmd, oldBackupDirs, notifier, outbox, runs>>

\* Mutant of KeyError: a lookup that never raises, as dict.get would be.
KeyErrorNever(b, key) == FALSE

\* backupset[key] raises KeyError when the entry has no such key.
KeyError(b, key) == key \in b.lacking

\* Lines 127-155: one iteration of the loop over "backupsets".
LoadBackupSet ==
  /\ pc = "sets"
  /\ LET b    == settings.backupsets[k]
         res  == ResolveRetention(b.retention)
         last == k = Len(settings.backupsets)
         warnDir == Message("Local Backup Directory Missing", 0, k, StrArg)
         warnRet == Message("No Retention Policy Set on Backup Set", 0, k, StrArg)
         sets1 == Append(backupSets, BackupSet(b.localdir, b.remotedir, res.minutes))
         \* the iteration ends normally with backup sets bs and notifier n
         Done(bs, n) ==
           /\ backupSets' = bs
           /\ notifier' = n
           /\ k' = k + 1
           /\ IF last
                THEN LET nx == FirstPair(Len(bs))
                     IN  /\ Goto(nx)
                         /\ runs' = IF nx.pc = "mkdir" THEN <<NewRun(nx.ti, nx.si)>> ELSE runs
                ELSE UNCHANGED <<pc, ti, si, runs>>
         \* an exception leaves main()
         Crash ==
           /\ pc' = "crashed"
           /\ UNCHANGED <<backupSets, notifier, k, ti, si, runs>>
     IN  IF KeyError(b, "localdir") THEN Crash
         ELSE IF ~b.isdir
           THEN IF AddWarningRaises(warnDir) THEN Crash
                ELSE Done(backupSets, AddWarning(notifier, warnDir))
         ELSE IF KeyError(b, "remotedir") THEN Crash
         ELSE IF res.raised THEN Crash
         ELSE IF res.warn
           THEN IF AddWarningRaises(warnRet) THEN Crash
                ELSE Done(sets1, AddWarning(notifier, warnRet))
         ELSE Done(sets1, notifier)
  /\ UNCHANGED <<settings, fs, now, failures, latestBackupDir, backupcmd,
                 oldBackupDirs, outbox>>

\* ---------------------------------------------------------------- pipeline

ErrorMsg(title, cmd, args) == Message(title, ti, si, CalledProcessError(cmd, args, 1))

\* An except handler of the pipeline: add_error and `continue`.
Abort(step, title, cmd, args) ==
  LET m  == ErrorMsg(title, cmd, args)
      nx == Continue(ti, si, Len(backupSets))
  IN  IF AddErrorRaises(m)
        THEN /\ pc' = "crashed"
             /\ UNCHANGED <<ti, si, notifier>>
             /\ runs' = Stepped(step, TRUE, Stay("crashed"))
        ELSE /\ notifier' = AddError(notifier, m)
             /\ Goto(nx)
             /\ runs' = Stepped(step, TRUE, nx)

\* Mutant of EnsureBaseDir: the except handler without its `continue`.
EnsureBaseDirNoContinue ==
  /\ pc = "mkdir"
  /\ \E ok \in BOOLEAN :
       /\ MayFail(ok)
       /\ Count(ok)
       /\ fs' = IF ok THEN [fs EXCEPT ![ti] = MkdirP(@, escapedRemoteBaseDir)] ELSE fs
       /\ Goto(Stay("rmtmp"))
       /\ runs' = Stepped("mkdir", ~ok, Stay("rmtmp"))
       /\ notifier' = IF ok THEN notifier
                      ELSE AddError(notifier, ErrorMsg("Could not create remote directory",
                                                       "mkdir", <<escapedRemoteBaseDir>>))
  /\ UNCHANGED <<settings, k, backupSets, now, latestBackupDir, backupcmd,
                 oldBackupDirs, outbox>>

\* Lines 166-171: mkdir -p of the base directory over ssh.  The command may
\* exit non-zero with the directory made or not.
EnsureBaseDir ==
  /\ pc = "mkdir"
  /\ \E ok \in BOOLEAN :
       /\ MayFail(ok)
       /\ Count(ok)
       /\ IF ok
            THEN /\ fs' = [fs EXCEPT ![ti] = MkdirP(@, escapedRemoteBaseDir)]
                 /\ Goto(Stay("rmtmp"))
                 /\ runs' = Stepped("mkdir", FALSE, Stay("rmtmp"))
                 /\ UNCHANGED notifier
            ELSE /\ Abort("mkdir", "Could not create remote directory", "mkdir",
                          <<escapedRemoteBaseDir>>)
                 /\ \/ UNCHANGED fs
                    \/ fs' = [fs EXCEPT ![ti] = MkdirP(@, escapedRemoteBaseDir)]
  /\ UNCHANGED <<settings, k, backupSets, now, latestBackupDir, backupcmd,
                 oldBackupDirs, outbox>>

\* Lines 173-178: rm -fR of the staging directory over ssh.
ClearStaging ==
  /\ pc = "rmtmp"
  /\ \E ok \in BOOLEAN :
       /\ MayFail(ok)
       /\ Count(ok)
       /\ IF ok
            THEN /\ fs' = [fs EXCEPT ![ti] = RmFR(@, RmTargets({escapedRemoteTmpDir}))]
                 /\ Goto(Stay("find1"))
                 /\ runs' = Stepped("rmtmp", FALSE, Stay("find1"))
                 /\ UNCHANGED notifier
            ELSE /\ Abort("rmtmp", "Could not remove remote temp directory", "rm",
                          <<escapedRemoteTmpDir>>)
                 /\ UNCHANGED fs
  /\ UNCHANGED <<settings, k, backupSets, now, latestBackupDir, backupcmd,
                 oldBackupDirs, outbox>>

\* Popen(...) and communicate() do not look at the exit status of the
\* processes: they never raise CalledProcessError.
PopenRaises(ok) == FALSE

\* What a pipeline of ssh find | sort ... prints: every line when ssh exits
\* zero, any part of them (or nothing) when it does not.
Outputs(lines, ok) == IF ok THEN {lines} ELSE SUBSET lines

\* Lines 193-199: the rsync command, with --link-dest when latest is not
\* the empty string.
BuildBackupCmd(latest, dest) ==
  IF latest = <<>>
    THEN [linkDest |-> <<>>, dest |-> dest]
    ELSE [linkDest |-> <<(<<".", ".", "/">> \o Basename(NormPath(ReEscape(latest))))>>,
          dest |-> dest]

\* Lines 180-199: find | sort -n -r | head -1 for the latest directory, then
\* building the rsync command.
ResolveLatest ==
  /\ pc = "find1"
  /\ \E ok \in BOOLEAN :
       /\ MayFail(ok)
       /\ Count(ok)
       /\ IF PopenRaises(ok)
            THEN /\ Abort("find1", "Could not get latest directory", "find",
                          <<escapedRemoteBaseDir>>)
                 /\ UNCHANGED <<latestBackupDir, backupcmd>>
            ELSE \E out \in Outputs(FindDirs(fs[ti], escapedRemoteBaseDir), ok) :
                   /\ latestBackupDir' = SortNRHead1(out)
                   /\ backupcmd' = BuildBackupCmd(SortNRHead1(out), escapedRemoteTmpDir)
                   /\ Goto(Stay("rsync"))
                   /\ runs' = Stepped("find1", ~ok, Stay("rsync"))
                   /\ UNCHANGED notifier
  /\ UNCHANGED <<settings, k, backupSets, fs, now, oldBackupDirs, outbox>>

\* Mutant of Transfer: the except handler without its `continue`.
TransferNoContinue ==
  /\ pc = "rsync"
  /\ \E ok \in BOOLEAN :
       /\ MayFail(ok)
       /\ Count(ok)
       /\ \/ fs' = [fs EXCEPT ![ti] =
                      RsyncInto(@, backupcmd.dest, IF ok THEN "full" ELSE "partial", now)]
          \/ ~ok /\ UNCHANGED fs
       /\ Goto(Stay("mv"))
       /\ runs' = Stepped("rsync", ~ok, Stay("mv"))
       /\ notifier' = IF ok THEN notifier
                      ELSE AddError(notifier, ErrorMsg("Rsync failed", "rsync",
                                                       <<backupcmd.dest>>))
  /\ UNCHANGED <<settings, k, backupSets, now, latestBackupDir, backupcmd,
                 oldBackupDirs, outbox>>

\* Lines 201-205: rsync into the staging directory.  A failed rsync leaves
\* a partial staging directory or none.
Transfer ==
  /\ pc = "rsync"
  /\ \E ok \in BOOLEAN :
       /\ MayFail(ok)
       /\ Count(ok)
       /\ IF ok
            THEN /\ fs' = [fs EXCEPT ![ti] = RsyncInto(@, backupcmd.dest, "full", now)]
                 /\ Goto(Stay("mv"))
                 /\ runs' = Stepped("rsync", FALSE, Stay("mv"))
                 /\ UNCHANGED notifier
            ELSE /\ \/ UNCHANGED fs
                    \/ fs' = [fs EXCEPT ![ti] = RsyncInto(@, backupcmd.dest, "partial", now)]
                 /\ Abort("rsync", "Rsync failed", "rsync", <<backupcmd.dest>>)
  /\ UNCHANGED <<settings, k, backupSets, now, latestBackupDir, backupcmd,
                 oldBackupDirs, outbox>>

\* Line 208: the path the staging directory is renamed to.
escapedRemoteCompletedBackupDir == ReEscape(Join(remoteBaseDir, StrfTime(now)))

\* Lines 207-213: mv of the staging directory to the timestamp name.
Promote ==
  /\ pc = "mv"
  /\ \E ok \in BOOLEAN :
       /\ MayFail(ok)
       /\ IF ok /\ ~MvFails(fs[ti], escapedRemoteTmpDir, escapedRemoteCompletedBackupDir)
            THEN /\ fs' = [fs EXCEPT ![ti] =
                            Mv(@, escapedRemoteTmpDir, escapedRemoteCompletedBackupDir, now)]
                 /\ Goto(Stay("find2"))
                 /\ runs' = [Stepped("mv", FALSE, Stay("find2")) EXCEPT
                              ![Len(runs)].promoted =
                                NameOf(ShellUnquote(escapedRemoteCompletedBackupDir))]
                 /\ UNCHANGED <<notifier, failures>>
            ELSE /\ Count(ok)
                 /\ Abort("mv", "Renaming temp backup dir", "mv",
                          <<escapedRemoteTmpDir, escapedRemoteCompletedBackupDir>>)
                 /\ UNCHANGED fs
  /\ UNCHANGED <<settings, k, backupSets, now, latestBackupDir, backupcmd,
                 oldBackupDirs, outbox>>

SuccessMsg == Message("Successfully completed backup", ti, si, NoArg)

\* Line 237: add_success, and on to the next pair.
Succeed(step, failedNow) ==
  LET nx == NextPair(ti, si, Len(backupSets))
  IN  /\ notifier' = AddSuccess(notifier, SuccessMsg)
      /\ Goto(nx)
      /\ runs' = Stepped(step, failedNow, nx)

retentionMins == backupSets[si].retention

\* Lines 215-226 and 237: find -cmin +retentionMins | sort -n for the
\* directories past their retention time; with none listed the pipeline
\* succeeds at once.
ListOld ==
  /\ pc = "find2"
  /\ \E ok \in BOOLEAN :
       /\ MayFail(ok)
       /\ Count(ok)
       /\ LET arg    == CminArg(retentionMins)
              failed == ~ok \/ ~CminArgOk(arg)
          IN  IF PopenRaises(~failed)
                THEN /\ Abort("find2", "Listing directories to get rid of old backups failed",
                              "find", <<escapedRemoteBaseDir>>)
                     /\ UNCHANGED oldBackupDirs
                ELSE \E out \in Outputs(FindCmin(fs[ti], escapedRemoteBaseDir, arg, now), ~failed) :
                       /\ oldBackupDirs' = out
                       /\ LET nx == NextPair(ti, si, Len(backupSets))
                          IN  IF out = {}
                                THEN /\ notifier' = AddSuccess(notifier, SuccessMsg)
                                     /\ Goto(nx)
                                     /\ runs' = [Stepped("find2", failed, nx) EXCEPT
                                                  ![Len(runs)].listedAt = now,
                                                  ![Len(runs)].listedDir =
                                                    fs[ti][remoteBaseDir].entries]
                                ELSE /\ Goto(Stay("rm2"))
                                     /\ runs' = [Stepped("find2", failed, Stay("rm2")) EXCEPT
                                                  ![Len(runs)].listedAt = now,
                                                  ![Len(runs)].listedDir =
                                                    fs[ti][remoteBaseDir].entries]
                                     /\ UNCHANGED notifier
  /\ UNCHANGED <<settings, k, backupSets, fs, now, latestBackupDir, backupcmd,
                 outbox>>

\* Lines 227-237: rm -fR of the listed directories over ssh.  A failed rm
\* may have removed any of them.
RemoveOld ==
  /\ pc = "rm2"
  /\ LET words == {ReEscape(line) : line \in oldBackupDirs}
     IN  \E ok \in BOOLEAN :
           /\ MayFail(ok)
           /\ Count(ok)
           /\ IF ok
                THEN /\ fs' = [fs EXCEPT ![ti] = RmFR(@, RmTargets(words))]
                     /\ Succeed("rm2", FALSE)
                ELSE /\ \E gone \in SUBSET RmTargets(words) :
                          fs' = [fs EXCEPT ![ti] = RmFR(@, gone)]
                     /\ Abort("rm2", "Removing old backup directories failed", "rm", <<>>)
  /\ UNCHANGED <<settings, k, backupSets, now, latestBackupDir, backupcmd,
                 oldBackupDirs, outbox>>

\* Line 239: send_notification builds the report and hands it to
\* _send_email_notification.
SendNotification ==
  /\ pc = "notify"
  /\ outbox' = Append(outbox, BuildReport(notifier))
  /\ pc' = "sent"
  /\ UNCHANGED <<settings, k, backupSets, ti, si, fs, now, failures, latestBackupDir,
                 backupcmd, oldBackupDirs, notifier, runs>>

\* A second passes.  The clock is read by strftime just before mv and by the
\* remote find -cmin; a second passing anywhere else in a pipeline cannot be
\* told from one passing just before the next of these.
Tick ==
  /\ pc \in {"mv", "find2"}
  /\ now - Now0 < MaxTicks
  /\ now' = now + 1
  /\ UNCHANGED <<settings, pc, k, backupSets, ti, si, fs, failures, latestBackupDir,
                 backupcmd, oldBackupDirs, notifier, outbox, runs>>

\* One step of main().
Step ==
  \/ LoadSettings
  \/ LoadBackupSet
  \/ EnsureBaseDir
  \/ ClearStaging
  \/ ResolveLatest
  \/ Transfer
  \/ Promote
  \/ ListOld
  \/ RemoveOld
  \/ SendNotification

Next == Step \/ Tick

Spec == Init /\ [][Next]_vars

\* main() is one sequential process whose commands return: it keeps taking
\* steps until it has none left.
FairSpec == Spec /\ WF_vars(Step)

\* ------------------------------------------- the retention resolver alone

\* Retention values <number><letter> for every number up to
\* MaxRetentionTime and every unit letter in either case, next to the
\* values of RetentionSpecs.
UnitLetters == {"y", "w", "d", "h", "m", "Y", "W", "D", "H", "M"}

ResolverInputs ==
  RetentionSpecs
    \cup {Retention(NatStr(n) \o <<u>>) : n \in 0..MaxRetentionTime, u \in UnitLetters}

\* Settings with one backup set whose local directory exists.
ResolverSettings ==
  {[loadable |-> "ok", backupsets |-> <<SetEntry(L1, R1, TRUE, ret)>>] :
     ret \in ResolverInputs}

ResolverInit ==
  /\ settings \in ResolverSettings
  /\ pc = "start"
  /\ k = 1
  /\ backupSets = <<>>
  /\ ti = 1
  /\ si = 1
  /\ \E h \in Histories : fs = [t \in Targets |-> [r \in RemoteDirs |-> h]]
  /\ now = Now0
  /\ failures = 0
  /\ latestBackupDir = <<>>
  /\ backupcmd = NoCmd
  /\ oldBackupDirs = {}
  /\ notifier = NewNotifier
  /\ outbox = <<>>
  /\ runs = <<>>

\* main() up to the loop over the targets at line 157.
ResolverNext == LoadSettings \/ LoadBackupSet

ResolverSpec == ResolverInit /\ [][ResolverNext]_vars

\* ------------------------------------------------ the notifier alone

\* The messages and e arguments given to a BackupNotifier by its caller.
CallTitles == {"m1", "m2"}
CallArgs == {NoArg, StrArg, CalledProcessError("rm", <<>>, 1)}

NotifierInit ==
  /\ settings = [loadable |-> "ok", backupsets |-> <<>>]
  /\ pc = "calls"
  /\ k = 1
  /\ backupSets = <<>>
  /\ ti = 1
  /\ si = 1
  /\ fs = [t \in Targets |-> [r \in RemoteDirs |-> [exists |-> FALSE, entries |-> {}]]]
  /\ now = Now0
  /\ failures = 0
  /\ latestBackupDir = <<>>
  /\ backupcmd = NoCmd
  /\ oldBackupDirs = {}
  /\ notifier = NewNotifier
  /\ outbox = <<>>
  /\ runs = <<>>

\* A call of add_success(message).
CallAddSuccess ==
  /\ pc = "calls"
  /\ Len(notifier.calls) < MaxCalls
  /\ \E t \in CallTitles : notifier' = AddSuccess(notifier, Message(t, 0, 0, NoArg))
  /\ UNCHANGED <<settings, pc, k, backupSets, ti, si, fs, now, failures, latestBackupDir,
                 backupcmd, oldBackupDirs, outbox, runs>>

\* A call of add_error(message, e); an exception it raises ends the run.
CallAddError ==
  /\ pc = "calls"
  /\ Len(notifier.calls) < MaxCalls
  /\ \E t \in CallTitles, e \in CallArgs :
       IF AddErrorRaises(Message(t, 0, 0, e))
         THEN pc' = "crashed" /\ UNCHANGED notifier
         ELSE notifier' = AddError(notifier, Message(t, 0, 0, e)) /\ UNCHANGED pc
  /\ UNCHANGED <<settings, k, backupSets, ti, si, fs, now, failures, latestBackupDir,
                 backupcmd, oldBackupDirs, outbox, runs>>

\* A call of add_warning(message, e); an exception it raises ends the run.
CallAddWarning ==
  /\ pc = "calls"
  /\ Len(notifier.calls) < MaxCalls
  /\ \E t \in CallTitles, e \in CallArgs :
       IF AddWarningRaises(Message(t, 0, 0, e))
         THEN pc' = "crashed" /\ UNCHANGED notifier
         ELSE notifier' = AddWarning(notifier, Message(t, 0, 0, e)) /\ UNCHANGED pc
  /\ UNCHANGED <<settings, k, backupSets, ti, si, fs, now, failures, latestBackupDir,
                 backupcmd, oldBackupDirs, outbox, runs>>

\* A call of send_notification().
CallSendNotification ==
  /\ pc = "calls"
  /\ outbox' = Append(outbox, BuildReport(notifier))
  /\ pc' = "sent"
  /\ UNCHANGED <<settings, k, backupSets, ti, si, fs, now, failures, latestBackupDir,
                 backupcmd, oldBackupDirs, notifier, runs>>

NotifierNext ==
  \/ CallAddSuccess
  \/ CallAddError
  \/ CallAddWarning
  \/ CallSendNotification

NotifierSpec == NotifierInit /\ [][NotifierNext]_vars

\* ------------------------------------------------------------------ claims

\* Messages of a list that concern the pair (t, s).
CountFor(list, t, s) ==
  Cardinality({j \in 1..Len(list) : list[j].ti = t /\ list[j].si = s})

ErrorsOf(r) == CountFor(notifier.error, r.ti, r.si)
SuccessesOf(r) == CountFor(notifier.success, r.ti, r.si)

\* The pairs in loop order: targets outside, backup sets inside.
AllPairs ==
  [i \in 1..(NumTargets * Len(backupSets)) |->
    <<((i - 1) \div Len(backupSets)) + 1, ((i - 1) % Len(backupSets)) + 1>>]

Started == [i \in 1..Len(runs) |-> <<runs[i].ti, runs[i].si>>]

IsPrefix(a, b) == Len(a) <= Len(b) /\ \A i \in 1..Len(a) : a[i] = b[i]

\* The pipeline of runs[i] ended with the step just taken: the remote tree
\* is as that pipeline left it.
JustEnded(i) ==
  /\ i \in 1..Len(runs)
  /\ runs[i].ended
  /\ \/ pc = "notify" /\ i = Len(runs)
     \/ pc = "mkdir" /\ i = Len(runs) - 1

BaseDirOf(r) == fs[r.ti][backupSets[r.si].remotedir]

\* The largest name in byte order among the directories of dir that are not
\* the staging directory.
GreatestSnapshot(dir) ==
  CHOOSE n \in {e.name : e \in Snapshots(dir)} :
    \A m \in {e.name : e \in Snapshots(dir)} \ {n} : StrLess(m, n)

\* The directory a --link-dest argument of the rsync command names on the
\* remote host: relative to the destination, unquoted by the remote shell.
LinkDestPath(cmd) ==
  LET ld == ShellUnquote(cmd.linkDest[1])
  IN  Join(BaseOf(ShellUnquote(cmd.dest)), SubSeq(ld, 4, Len(ld)))

\* C1: every pipeline that has ended with some remote step failed has
\* exactly one Error outcome and no Success outcome for its pair, and every
\* pipeline that has ended with no step failed has exactly one Success and
\* no Error.
C1_OutcomeCount ==
  \A i \in 1..Len(runs) :
    runs[i].ended =>
      IF runs[i].failed # {}
        THEN ErrorsOf(runs[i]) = 1 /\ SuccessesOf(runs[i]) = 0
        ELSE ErrorsOf(runs[i]) = 0 /\ SuccessesOf(runs[i]) = 1

\* A pipeline that ended either recorded its Success or stopped at the step
\* that failed.
DoneOrAborted(r) ==
  \/ SuccessesOf(r) = 1
  \/ \E st \in r.failed : ErrorsOf(r) = 1

\* The order and bookkeeping half of C2.
PairsInOrder ==
  /\ pc \in PipelinePcs \cup {"notify", "sent"} => IsPrefix(Started, AllPairs)
  /\ pc \in PipelinePcs =>
       /\ runs # <<>>
       /\ ~runs[Len(runs)].ended
       /\ ti = runs[Len(runs)].ti /\ si = runs[Len(runs)].si
       /\ \A i \in 1..(Len(runs) - 1) : runs[i].ended /\ DoneOrAborted(runs[i])
  /\ pc \in {"notify", "sent"} =>
       /\ Started = AllPairs
       /\ \A i \in 1..Len(runs) : runs[i].ended /\ DoneOrAborted(runs[i])

\* C2: whatever commands fail, the pipelines are started one pair at a time
\* in loop order (targets outside, backup sets inside), each pair once;
\* every pipeline that ended reached Done or aborted at a failed step; and
\* once the loops are entered they are eventually left with every pair
\* started.
C2_SiblingsContinue ==
  /\ []PairsInOrder
  /\ (pc \in PipelinePcs) ~> (pc \in {"notify", "sent"} /\ Started = AllPairs)

\* C2 witness: all four pairs were run although the first pipeline failed.
C2_Witness ==
  /\ pc = "sent"
  /\ Len(runs) = 4
  /\ runs[1].failed # {}
  /\ ErrorsOf(runs[1]) = 1
  /\ SuccessesOf(runs[4]) = 1

\* C3: every directory under a name other than the staging name holds a
\* transfer that ran to its end, and a pipeline in which Transfer or an
\* earlier step failed has not run the rename and promoted nothing.
C3_AtomicPromotion ==
  /\ \A t \in Targets : \A b \in RemoteDirs :
       \A e \in Snapshots(fs[t][b]) : e.content = "full"
  /\ \A i \in 1..Len(runs) :
       runs[i].failed \cap {"mkdir", "rmtmp", "find1", "rsync"} # {} =>
         "mv" \notin runs[i].ran /\ runs[i].promoted = <<>>

\* C4: a pipeline whose listing for the latest directory failed has an Error
\* outcome and runs neither Transfer nor Promote; the rsync command is built
\* without --link-dest only after a listing that succeeded and was empty.
C4_ResolveLatestFailure ==
  /\ \A i \in 1..Len(runs) :
       "find1" \in runs[i].failed =>
         /\ ErrorsOf(runs[i]) >= 1
         /\ runs[i].ran \cap {"rsync", "mv"} = {}
  /\ pc = "rsync" /\ backupcmd.linkDest = <<>> =>
       /\ "find1" \notin runs[Len(runs)].failed
       /\ fs[ti][remoteBaseDir].entries = {}

\* C5: when Transfer is about to run, the rsync command has a --link-dest
\* exactly if the base directory holds a snapshot, and it then names the
\* greatest directory of the base directory that is not the staging
\* directory.
C5_LinkDest ==
  pc = "rsync" =>
    LET dir == fs[ti][remoteBaseDir]
    IN  /\ backupcmd.linkDest # <<>> <=> Snapshots(dir) # {}
        /\ backupcmd.linkDest # <<>> =>
             /\ Snapshots(dir) # {}
             /\ LinkDestPath(backupcmd) = Join(remoteBaseDir, GreatestSnapshot(dir))
             /\ NameOf(LinkDestPath(backupcmd)) # TmpName

\* C6: when a pipeline has just ended with no step failed, a directory that
\* was under the base directory when the retention listing ran is gone
\* exactly if its age then (since its status change) was more than the
\* backup set's cutoff; one exactly as old as the cutoff is kept.
C6_Retention ==
  \A i \in 1..Len(runs) :
    JustEnded(i) /\ runs[i].failed = {} /\ "find2" \in runs[i].ran =>
      \A e \in runs[i].listedDir :
        e.name \notin Names(BaseDirOf(runs[i]))
          <=> runs[i].listedAt - e.ctime > backupSets[runs[i].si].retention * Minute

\* C6 witness: with a cutoff of 20160 minutes the 20-day-old snapshot has
\* been removed and the 10-day-old one kept.
C6_Witness ==
  \E i \in 1..Len(runs) :
    /\ JustEnded(i)
    /\ runs[i].failed = {}
    /\ "rm2" \in runs[i].ran
    /\ backupSets[runs[i].si].retention = 20160
    /\ \E old \in runs[i].listedDir, young \in runs[i].listedDir :
         /\ old.ctime = Now0 - 20 * Day
         /\ young.ctime = Now0 - 10 * Day
         /\ old.name \notin Names(BaseDirOf(runs[i]))
         /\ young.name \in Names(BaseDirOf(runs[i]))

\* C7: a pipeline that ended with the retention listing or the removal
\* failed has an Error outcome and no Success outcome, and the snapshot it
\* promoted is still under the base directory when it ends.
C7_RetentionFailure ==
  \A i \in 1..Len(runs) :
    runs[i].ended /\ runs[i].failed \cap {"find2", "rm2"} # {} =>
      /\ ErrorsOf(runs[i]) >= 1
      /\ SuccessesOf(runs[i]) = 0
      /\ JustEnded(i) => runs[i].promoted \in Names(BaseDirOf(runs[i]))

\* main() has stopped: it returned or an exception left it.
Stopped == pc \in {"sent", "crashed"}

\* C8: the report is handed over at most once and only after every
\* pipeline has ended, and a run whose settings loaded does not stop
\* without having handed it over.
C8_ReportSent ==
  /\ Len(outbox) <= 1
  /\ Len(outbox) = 1 => \A i \in 1..Len(runs) : runs[i].ended
  /\ settings.loadable = "ok" /\ Stopped => Len(outbox) = 1

\* The "backupsets" entry j has been dealt with by the loading loop.
Handled(j) ==
  /\ pc # "start"
  /\ settings.loadable = "ok"
  /\ j \in 1..Len(settings.backupsets)
  /\ k > j \/ (k = j /\ pc = "crashed")

WarningsFor(j) == CountFor(notifier.warning, 0, j)

\* C9: once an entry whose local directory is missing has been dealt with,
\* there is exactly one Warning for it, it is not among the accepted backup
\* sets, and the run has not been aborted.
C9_LocalPathMissing ==
  \A j \in 1..Len(settings.backupsets) :
    Handled(j) /\ ~settings.backupsets[j].isdir =>
      /\ WarningsFor(j) = 1
      /\ \A n \in 1..Len(backupSets) :
           backupSets[n].localdir # settings.backupsets[j].localdir
      /\ pc # "crashed"

\* The retention value is present and int() or the unit letter rejects it.
BadRetention(ret) ==
  ret.present /\ (ResolveRetention(ret).raised \/ ResolveRetention(ret).warn)

\* C10: once an entry with a malformed retention value or an unknown unit
\* has been dealt with, there is one Warning for it, no exception has left
\* main(), and the backup set is accepted with the default cutoff.
C10_ResolverNeverFails ==
  \A j \in 1..Len(settings.backupsets) :
    Handled(j) /\ settings.backupsets[j].isdir
      /\ BadRetention(settings.backupsets[j].retention) =>
      /\ WarningsFor(j) = 1
      /\ pc # "crashed"
      /\ \E n \in 1..Len(backupSets) :
           /\ backupSets[n].localdir = settings.backupsets[j].localdir
           /\ backupSets[n].retention = DefaultRetention


\* The number and the unit letter of a retention value <number><letter>.
TimeOf(ret) == IntValue(SubSeq(ret.value, 1, Len(ret.value) - 1))
UnitOf(ret) == Lower(ret.value[Len(ret.value)])

\* The retention value is a non-negative integer followed by one of the
\* five unit letters, in either case.
WellFormed(ret) ==
  /\ ret.present
  /\ Len(ret.value) >= 2
  /\ AllDigits(SubSeq(ret.value, 1, Len(ret.value) - 1))
  /\ UnitOf(ret) \in {"y", "w", "d", "h", "m"}

\* Minutes in one year, week, day, hour and minute.
MinutesIn(u) ==
  CASE u = "y" -> 365 * 24 * 60
    [] u = "w" -> 7 * 24 * 60
    [] u = "d" -> 24 * 60
    [] u = "h" -> 60
    [] u = "m" -> 1

\* The accepted backup set made from the "backupsets" entry j has cutoff m.
AcceptedWith(j, m) ==
  \E n \in 1..Len(backupSets) :
    /\ backupSets[n].localdir = settings.backupsets[j].localdir
    /\ backupSets[n].retention = m

\* C11: once an entry with a retention value <number><letter> has been
\* dealt with, its backup set is accepted with a cutoff of that number of
\* years, weeks, days, hours or minutes, in minutes ("2w" gives 20160).
C11_UnitConversion ==
  \A j \in 1..Len(settings.backupsets) :
    Handled(j) /\ settings.backupsets[j].isdir
      /\ WellFormed(settings.backupsets[j].retention) =>
      AcceptedWith(j, TimeOf(settings.backupsets[j].retention)
                        * MinutesIn(UnitOf(settings.backupsets[j].retention)))

\* C12: once an entry without a retention value has been dealt with, its
\* backup set is accepted with a cutoff of 12 weeks in minutes (120960) and
\* there is no Warning for it.
C12_DefaultRetention ==
  \A j \in 1..Len(settings.backupsets) :
    Handled(j) /\ settings.backupsets[j].isdir
      /\ ~settings.backupsets[j].retention.present =>
      /\ AcceptedWith(j, 12 * 7 * 24 * 60)
      /\ WarningsFor(j) = 0


\* The settings file is missing, is not JSON, or lacks a required key.
ConfigLoadError ==
  \/ settings.loadable # "ok"
  \/ \E j \in 1..Len(settings.backupsets) : settings.backupsets[j].lacking # {}

\* No command of any pipeline has run and nothing was handed to the
\* notifier's sender.
NoBackupActivity ==
  /\ pc \in {"start", "sets", "crashed"}
  /\ runs = <<>>
  /\ failures = 0
  /\ outbox = <<>>

\* C13: in a run whose settings file is missing, unparseable or lacks a
\* required key, no remote command is ever issued and no report is sent,
\* and the process terminates by an exception leaving main().
C13_ConfigLoadErrorFatal ==
  /\ [](ConfigLoadError => NoBackupActivity)
  /\ ConfigLoadError ~> (pc = "crashed")

\* C13 witness: the second entry lacks "remotedir"; main() stopped there
\* with the first backup set accepted and nothing run or sent.
C13_Witness ==
  /\ pc = "crashed"
  /\ k = 2
  /\ Len(backupSets) = 1
  /\ settings.backupsets[2].isdir
  /\ "remotedir" \in settings.backupsets[2].lacking
  /\ NoBackupActivity


\* The directories under every base directory of every target.
Tree(f) == [t \in Targets |-> [b \in RemoteDirs |-> f[t][b].entries]]

\* The step is the EnsureBaseDir command of the current pipeline exiting
\* non-zero.
EnsureBaseDirFailed == pc = "mkdir" /\ failures' = failures + 1

\* C14: a step in which the EnsureBaseDir command fails ends the pipeline
\* there: one Error for the pair, carrying the mkdir command and its exit
\* code, is recorded, no Success, no other step of the pipeline has run, and
\* the directories under the base directories are what they were when the
\* pipeline started.
C14_EnsureBaseDirFailure ==
  [][EnsureBaseDirFailed =>
       /\ Tree(fs') = Tree(fs)
       /\ Len(notifier'.error) = Len(notifier.error) + 1
       /\ LET m == notifier'.error[Len(notifier'.error)]
          IN  /\ m.ti = ti /\ m.si = si
              /\ m.e.type = "CalledProcessError"
              /\ m.e.cmd = "mkdir"
              /\ m.e.args = <<escapedRemoteBaseDir>>
              /\ m.e.returncode # 0
       /\ CountFor(notifier'.error, ti, si) = 1
       /\ CountFor(notifier'.success, ti, si) = 0
       /\ notifier'.success = notifier.success
       /\ notifier'.warning = notifier.warning
       /\ pc' \in {"mkdir", "notify"}
       /\ runs'[Len(runs)].ended
       /\ runs'[Len(runs)].ran = {"mkdir"}]_vars

\* C14 witness: a pipeline has just ended at its failed EnsureBaseDir with
\* one Error, the stale staging directory and the old snapshot still there.
C14_Witness ==
  \E i \in 1..Len(runs) :
    /\ JustEnded(i)
    /\ runs[i].failed = {"mkdir"}
    /\ runs[i].ran = {"mkdir"}
    /\ ErrorsOf(runs[i]) = 1
    /\ TmpName \in Names(BaseDirOf(runs[i]))
    /\ Snapshots(BaseDirOf(runs[i])) # {}


\* C15: a pipeline that started on a base directory without a snapshot and
\* in which every step succeeded ends with exactly one directory under the
\* base directory, the one it promoted under its timestamp name, with no
\* staging directory, and with exactly one Success for the pair.
C15_FirstBackup ==
  \A i \in 1..Len(runs) :
    JustEnded(i) /\ runs[i].failed = {}
      /\ {e \in runs[i].startDir : e.name # TmpName} = {} =>
      /\ Names(BaseDirOf(runs[i])) = {runs[i].promoted}
      /\ runs[i].promoted # TmpName
      /\ SuccessesOf(runs[i]) = 1
      /\ ErrorsOf(runs[i]) = 0


\* The pipelines of runs[i] and runs[j] promoted into the same base
\* directory of the same target, runs[i] first.
PromotedInOrder(i, j) ==
  /\ i < j
  /\ runs[i].promoted # <<>> /\ runs[j].promoted # <<>>
  /\ runs[i].ti = runs[j].ti
  /\ backupSets[runs[i].si].remotedir = backupSets[runs[j].si].remotedir

\* C16: of two promotions into one base directory the later one made a
\* name different from, and greater in byte order than, the earlier one's.
C16_SnapshotOrdering ==
  \A i \in 1..Len(runs) : \A j \in 1..Len(runs) :
    PromotedInOrder(i, j) =>
      /\ runs[i].promoted # runs[j].promoted
      /\ StrLess(runs[i].promoted, runs[j].promoted)


\* What a step does to the snapshot e of the directory old, new being the
\* directory after the step: it leaves e's contents alone, or e is gone.
Untouched(e, new) ==
  /\ e.name \in Names(new)
  /\ EntryOf(new, e.name).content = e.content
  /\ EntryOf(new, e.name).inner = e.inner

\* C17: no step changes the contents of a directory that is under a base
\* directory by another name than the staging name; the only step after
\* which such a directory is gone is the removal of EnforceRetention.  In
\* particular no Promote puts the staging directory inside one.
C17_SnapshotImmutable ==
  [][\A t \in Targets : \A b \in RemoteDirs :
       \A e \in Snapshots(fs[t][b]) :
         \/ Untouched(e, fs'[t][b])
         \/ e.name \notin Names(fs'[t][b]) /\ pc = "rm2"]_vars


IsErrorCall(c) == c.kind = "error"
IsWarningCall(c) == c.kind = "warning"
IsSuccessCall(c) == c.kind = "success"

\* The messages of a sequence of calls, each under a label.
MessagesOf(label, cs) == [i \in 1..Len(cs) |-> [label |-> label, text |-> cs[i].m]]

\* C18: every report handed over carries as its counts the numbers of
\* add_error, add_warning and add_success calls made, and as its body the
\* messages of the add_error calls in the order made, then those of the
\* add_warning calls, then those of the add_success calls.
C18_ReportContent ==
  \A i \in 1..Len(outbox) :
    /\ outbox[i].errors = Len(SelectSeq(notifier.calls, IsErrorCall))
    /\ outbox[i].warnings = Len(SelectSeq(notifier.calls, IsWarningCall))
    /\ outbox[i].successes = Len(SelectSeq(notifier.calls, IsSuccessCall))
    /\ outbox[i].body =
         MessagesOf("ERROR", SelectSeq(notifier.calls, IsErrorCall))
           \o MessagesOf("WARNING", SelectSeq(notifier.calls, IsWarningCall))
           \o MessagesOf("OK", SelectSeq(notifier.calls, IsSuccessCall))

\* C18 witness: a report was built after a success, then a warning, then an
\* error had been recorded.
C18_Witness ==
  /\ Len(outbox) = 1
  /\ Len(notifier.calls) = 3
  /\ notifier.calls[1].kind = "success"
  /\ notifier.calls[2].kind = "warning"
  /\ notifier.calls[3].kind = "error"
  /\ outbox[1].body[1] = [label |-> "ERROR", text |-> notifier.calls[3].m]
  /\ outbox[1].body[3] = [label |-> "OK", text |-> notifier.calls[1].m]


\* The step is the command of the given pipeline step exiting non-zero.
StepFailed(step) ==
  /\ pc = step
  /\ step \notin runs[Len(runs)].failed
  /\ step \in runs'[Len(runs)].failed

\* C19 as stated: a pipeline that has just ended with its Transfer or its
\* Promote failed ran no later step, and the staging directory is under its
\* base directory.
C19_StagingPresent ==
  \A i \in 1..Len(runs) :
    JustEnded(i) /\ runs[i].failed \cap {"rsync", "mv"} # {} =>
      /\ runs[i].ran \cap {"find2", "rm2"} = {}
      /\ "rsync" \in runs[i].failed => "mv" \notin runs[i].ran
      /\ TmpName \in Names(BaseDirOf(runs[i]))

\* C19 amended: a step in which Transfer or Promote fails is the last of
\* its pipeline, removes or renames no staging directory and touches no
\* other directory; and the only steps after which a staging directory
\* that was there is gone are ClearStaging and Promote, on their own target
\* and base directory.
C19_StagingLeft ==
  [][/\ StepFailed("rsync") \/ StepFailed("mv") =>
          /\ pc' \in {"mkdir", "notify"}
          /\ runs'[Len(runs)].ended
          /\ runs'[Len(runs)].ran \cap {"find2", "rm2"} = {}
          /\ pc = "rsync" => "mv" \notin runs'[Len(runs)].ran
          /\ \A t \in Targets : \A b \in RemoteDirs :
               /\ TmpName \in Names(fs[t][b]) => TmpName \in Names(fs'[t][b])
               /\ Snapshots(fs'[t][b]) = Snapshots(fs[t][b])
     /\ \A t \in Targets : \A b \in RemoteDirs :
          TmpName \in Names(fs[t][b]) /\ TmpName \notin Names(fs'[t][b]) =>
            /\ pc \in {"rmtmp", "mv"}
            /\ t = ti /\ b = remoteBaseDir]_vars

\* C19 witness: a pipeline has just ended at its failed Promote, and the
\* staging directory its Transfer filled is still under the base directory.
C19_Witness ==
  \E i \in 1..Len(runs) :
    /\ JustEnded(i)
    /\ runs[i].failed = {"mv"}
    /\ runs[i].ran = {"mkdir", "rmtmp", "find1", "rsync", "mv"}
    /\ ErrorsOf(runs[i]) = 1
    /\ TmpName \in Names(BaseDirOf(runs[i]))
    /\ EntryOf(BaseDirOf(runs[i]), TmpName).content = "full"


\* C20: when a pipeline of a backup set with a cutoff of zero or more has
\* just ended with a Success recorded, the snapshot it promoted is under
\* the base directory, which so holds a snapshot, and the staging directory
\* is not.
C20_NewSnapshotSurvives ==
  \A i \in 1..Len(runs) :
    JustEnded(i) /\ SuccessesOf(runs[i]) >= 1
      /\ backupSets[runs[i].si].retention >= 0 =>
      /\ runs[i].promoted # <<>>
      /\ runs[i].promoted \in Names(BaseDirOf(runs[i]))
      /\ Snapshots(BaseDirOf(runs[i])) # {}
      /\ TmpName \notin Names(BaseDirOf(runs[i]))

====
